---- MODULE Spec2Model ----
(***************************************************************************)
(* CacheAccount of crates/revm/src/db/states/cache_account.rs: one cache   *)
(* entry (an optional PlainAccount and an AccountStatus), its six          *)
(* constructors and its mutating operations, each returning the            *)
(* TransitionAccount handed to the bundle state.                           *)
(*                                                                         *)
(* AccountInfo is modelled by the two fields the operations read or write, *)
(* balance and code_hash; nonce and code are copied along with them and    *)
(* never inspected by this file.  U256 balances and storage values and     *)
(* u128 amounts are scaled down to small ranges that keep the u128 range a *)
(* strict prefix of the U256 range.                                        *)
(***************************************************************************)
EXTENDS Naturals, FiniteSets

\* ------------------------------------------------------------------ bounds

\* Storage slot keys are 0 .. NumSlots-1.
NumSlots == 1

\* Largest amount the drained-amount type (u128) holds, scaled down.
MaxU128 == 1

\* Largest balance (U256), scaled down: one value lies beyond the u128 range.
MaxU256 == MaxU128 + 1

Slots == 0 .. (NumSlots - 1)

\* Storage values (U256): zero and a non-zero value.
Values == {0, 1}

Balances == 0 .. MaxU256

Amounts == 0 .. MaxU128

\* ------------------------------------------------------------- data model

KECCAK_EMPTY == "KECCAK_EMPTY"

\* Any code hash of an account that has code.
CODE_HASH == "CODE_HASH"

CodeHashes == {KECCAK_EMPTY, CODE_HASH}

AccountInfo == [balance : Balances, code_hash : CodeHashes]

\* AccountInfo::default(): zero balance, no code.
AccountInfo_default == [balance |-> 0, code_hash |-> KECCAK_EMPTY]

\* Option<T>
None == [some |-> FALSE]

Some(v) == [some |-> TRUE, val |-> v]

\* HashMap<K, V> with keys among the slots: a function on a set of slots.
Maps(V) == UNION {[S -> V] : S \in SUBSET Slots}

EmptyMap == [k \in {} |-> 0]

\* PlainStorage = HashMap<U256, U256>
PlainStorage == Maps(Values)

StorageSlot == [original_value : Values, present_value : Values]

\* StorageWithOriginalValues = HashMap<U256, StorageSlot>
StorageWithOriginalValues == Maps(StorageSlot)

\* StorageSlot::new_cleared_value(original): the slot is now zero.
new_cleared_value(original) == [original_value |-> original, present_value |-> 0]

\* PlainAccount { info, storage }
PlainAccount(info, storage) == [info |-> info, storage |-> storage]

\* PlainAccount::new_empty_with_storage(storage)
new_empty_with_storage(storage) == PlainAccount(AccountInfo_default, storage)

\* PlainAccount::default(), what unwrap_or_default() builds for an absent record.
PlainAccount_default == PlainAccount(AccountInfo_default, EmptyMap)

AccountStatus ==
    {"LoadedNotExisting", "Loaded", "LoadedEmptyEIP161", "InMemoryChange",
     "Changed", "Destroyed", "DestroyedChanged", "DestroyedAgain"}

\* Mutant: the new and the previous halves of the transition are swapped.
TransitionAccount_swapped(info, st, previous_info, previous_status, storage) ==
    [info |-> previous_info, status |-> previous_status, previous_info |-> info,
     previous_status |-> st, storage |-> storage]

TransitionAccount(info, st, previous_info, previous_status, storage) ==
    [info |-> info, status |-> st, previous_info |-> previous_info,
     previous_status |-> previous_status, storage |-> storage]

\* Mutant: an entry already in the map is kept on collision.
extend_keeps_existing(map, other) ==
    [k \in (DOMAIN map) \cup (DOMAIN other) |->
        IF k \in DOMAIN map THEN map[k] ELSE other[k]]

\* HashMap::extend: the entries of `other` are inserted over those of `map`.
extend(map, other) ==
    [k \in (DOMAIN map) \cup (DOMAIN other) |->
        IF k \in DOMAIN other THEN other[k] ELSE map[k]]

\* Mutant: the live storage is fed the original values of the diff.
present_values_takes_original(storage) ==
    [k \in DOMAIN storage |-> storage[k].original_value]

\* Mutant: a slot whose present value is zero is left out.
present_values_drops_zero(storage) ==
    [k \in {j \in DOMAIN storage : storage[j].present_value # 0} |->
        storage[k].present_value]

\* storage.iter().map(|(k, s)| (*k, s.present_value))
present_values(storage) == [k \in DOMAIN storage |-> storage[k].present_value]


\* ------------------------------------------------------------------ state

VARIABLES
    account,      \* CacheAccount.account : Option<PlainAccount>
    status,       \* CacheAccount.status : AccountStatus
    op,           \* the constructor or operation called last ("accumulate": none pending)
    args,         \* the arguments of that call
    old_account,  \* the record the operation was called on
    old_status,   \* the status the operation was called on
    ret,          \* the Option<TransitionAccount> the operation returned
    drained,      \* the Option<u128> drain_balance returned
    panicked,     \* the operation ended in a panic (unreachable!, unwrap)
    replayed,     \* aggregator: the construction storage with every emitted diff applied
    dropped,      \* aggregator: a selfdestruct discarded live slots without a diff entry
    original,     \* aggregator: the storage map given at construction
    scenario      \* observer: how far the calls so far follow destroy-then-recreate

observer == <<replayed, dropped, original, scenario>>

vars == <<account, status, op, args, old_account, old_status, ret, drained, panicked,
          replayed, dropped, original, scenario>>

Constructors ==
    {"new_loaded", "new_loaded_empty_eip161", "new_loaded_not_existing",
     "new_newly_created", "new_destroyed", "new_changed"}

Operations ==
    {"touch_empty", "selfdestruct", "newly_created", "increment_balance",
     "drain_balance", "change"}

\* The arguments of a call: an AccountInfo, a storage map or diff, an amount.
Args(info, storage, amount) == [info |-> info, storage |-> storage, amount |-> amount]

NoArgs == Args(None, EmptyMap, None)

\* ----------------------------------------------------------- constructors

Constructed(name, arguments, acc, st) ==
    /\ account = acc
    /\ status = st
    /\ op = name
    /\ args = arguments
    /\ old_account = acc
    /\ old_status = st
    /\ ret = None
    /\ drained = None
    /\ panicked = FALSE

new_loaded(info, storage) ==
    Constructed("new_loaded", Args(Some(info), storage, None),
                Some(PlainAccount(info, storage)), "Loaded")

new_loaded_empty_eip161(storage) ==
    Constructed("new_loaded_empty_eip161", Args(None, storage, None),
                Some(new_empty_with_storage(storage)), "LoadedEmptyEIP161")

new_loaded_not_existing ==
    Constructed("new_loaded_not_existing", NoArgs, None, "LoadedNotExisting")

new_newly_created(info, storage) ==
    Constructed("new_newly_created", Args(Some(info), storage, None),
                Some(PlainAccount(info, storage)), "InMemoryChange")

new_destroyed ==
    Constructed("new_destroyed", NoArgs, None, "Destroyed")

new_changed(info, storage) ==
    Constructed("new_changed", Args(Some(info), storage, None),
                Some(PlainAccount(info, storage)), "Changed")

\* -------------------------------------------------------------- accessors

\* Mutant: the pre-EIP-161 empty account is left out.
is_some_forgets_eip161 ==
    status \in {"Changed", "InMemoryChange", "DestroyedChanged", "Loaded"}

is_some ==
    status \in {"Changed", "InMemoryChange", "DestroyedChanged", "Loaded",
                "LoadedEmptyEIP161"}

\* account.as_ref().map(|a| a.info.clone())
info_of(acc) == IF acc.some THEN Some(acc.val.info) ELSE None

account_info == info_of(account)

\* The storage map of a record; empty when the record is absent.
storage_of(acc) == IF acc.some THEN acc.val.storage ELSE EmptyMap

\* ------------------------------------------------------------- operations

\* Calls on one entry are strictly sequential: the transition an earlier call
\* returned has been moved out of the caller's hands before the next call.
Callable == ~panicked /\ ~ret.some

\* An operation that returned: the entry after it and what it handed back.
Returned(name, arguments, acc, st, transition, amount) ==
    /\ account' = acc
    /\ status' = st
    /\ op' = name
    /\ args' = arguments
    /\ old_account' = account
    /\ old_status' = status
    /\ ret' = transition
    /\ drained' = amount
    /\ panicked' = FALSE

\* An operation that panicked after taking the record out of the entry: the
\* status was not assigned and nothing was returned.
Panicked(name, arguments) ==
    /\ account' = None
    /\ status' = status
    /\ op' = name
    /\ args' = arguments
    /\ old_account' = account
    /\ old_status' = status
    /\ ret' = None
    /\ drained' = None
    /\ panicked' = TRUE

\* The `_ => unreachable!(..)` arm of a status match.
Unreachable == "unreachable!"

\* Mutant: DestroyedChanged is treated as one more "do nothing" arm.
touch_empty_status_keeps_changed(st) ==
    CASE st = "DestroyedChanged" -> "DestroyedChanged"
      [] st = "InMemoryChange" -> "Destroyed"
      [] st = "LoadedNotExisting" -> "LoadedNotExisting"
      [] st = "Destroyed" -> "Destroyed"
      [] st = "DestroyedAgain" -> "DestroyedAgain"
      [] st = "LoadedEmptyEIP161" -> "Destroyed"
      [] OTHER -> Unreachable

\* Mutant: a created-then-touched account is set back to LoadedNotExisting.
touch_empty_status_not_existing(st) ==
    CASE st = "DestroyedChanged" -> "DestroyedAgain"
      [] st = "InMemoryChange" -> "LoadedNotExisting"
      [] st = "LoadedNotExisting" -> "LoadedNotExisting"
      [] st = "Destroyed" -> "Destroyed"
      [] st = "DestroyedAgain" -> "DestroyedAgain"
      [] st = "LoadedEmptyEIP161" -> "Destroyed"
      [] OTHER -> Unreachable

\* Mutant: the catch-all arm guesses Destroyed instead of panicking.
touch_empty_status_guesses(st) ==
    CASE st = "DestroyedChanged" -> "DestroyedAgain"
      [] st = "InMemoryChange" -> "Destroyed"
      [] st = "LoadedNotExisting" -> "LoadedNotExisting"
      [] st = "Destroyed" -> "Destroyed"
      [] st = "DestroyedAgain" -> "DestroyedAgain"
      [] st = "LoadedEmptyEIP161" -> "Destroyed"
      [] OTHER -> "Destroyed"

touch_empty_status(st) ==
    CASE st = "DestroyedChanged" -> "DestroyedAgain"
      [] st = "InMemoryChange" -> "Destroyed"
      [] st = "LoadedNotExisting" -> "LoadedNotExisting"
      [] st = "Destroyed" -> "Destroyed"
      [] st = "DestroyedAgain" -> "DestroyedAgain"
      [] st = "LoadedEmptyEIP161" -> "Destroyed"
      [] OTHER -> Unreachable

\* Mutant: only the touch of a not existing account is silent.
touch_empty_silent_narrow(st) == st = "LoadedNotExisting"

\* touch_empty: the old statuses for which no transition is returned.
touch_empty_silent(st) == st \in {"LoadedNotExisting", "Destroyed", "DestroyedAgain"}

\* Mutant: the old value is put in present_value and zero in original_value.
cleared_swapped(storage) ==
    [k \in DOMAIN storage |-> [original_value |-> 0, present_value |-> storage[k]]]

\* Mutant: the cleared slot forgets the value it held.
cleared_forgets(storage) == [k \in DOMAIN storage |-> new_cleared_value(0)]

\* Every slot of a storage map as a cleared StorageSlot.
cleared(storage) == [k \in DOMAIN storage |-> new_cleared_value(storage[k])]

touch_empty ==
    /\ Callable
    /\ LET previous_status == status
           storage == cleared(storage_of(account))
           previous_info == account_info
       IN  IF touch_empty_status(status) = Unreachable
           THEN Panicked("touch_empty", NoArgs)
           ELSE Returned("touch_empty", NoArgs, None, touch_empty_status(status),
                         IF touch_empty_silent(status)
                         THEN None
                         ELSE Some(TransitionAccount(None, touch_empty_status(status),
                                                     previous_info, previous_status,
                                                     storage)),
                         None)

\* Mutant: a repeated destruction is not told apart from the first.
selfdestruct_status_always_destroyed(st) == "Destroyed"

selfdestruct_status(st) ==
    IF st \in {"DestroyedChanged", "DestroyedAgain", "Destroyed"}
    THEN "DestroyedAgain"
    ELSE "Destroyed"

\* Mutant: selfdestruct returns a transition from every status.
selfdestruct_silent_never(st) == FALSE

\* selfdestruct: the old status for which no transition is returned.
selfdestruct_silent(st) == st = "LoadedNotExisting"

selfdestruct ==
    /\ Callable
    /\ LET previous_info == account_info
           previous_status == status
       IN  Returned("selfdestruct", NoArgs, None, selfdestruct_status(status),
                    IF selfdestruct_silent(previous_status)
                    THEN None
                    ELSE Some(TransitionAccount(None, selfdestruct_status(status),
                                                previous_info, previous_status,
                                                EmptyMap)),
                    None)

\* Mutant: a present record that was changed keeps status Changed.
newly_created_status_keeps_changed(st) ==
    IF st \in {"DestroyedAgain", "Destroyed", "DestroyedChanged"}
    THEN "DestroyedChanged"
    ELSE IF st = "Changed" THEN "Changed" ELSE "InMemoryChange"

\* Mutant: the earlier destruction is forgotten on creation.
newly_created_status_forgets_destroyed(st) == "InMemoryChange"

newly_created_status(st) ==
    IF st \in {"DestroyedAgain", "Destroyed", "DestroyedChanged"}
    THEN "DestroyedChanged"
    ELSE "InMemoryChange"

newly_created(new_info, new_storage) ==
    /\ Callable
    /\ LET previous_status == status
           previous_info == account_info
           storage_diff == extend(cleared(storage_of(account)), new_storage)
           new_bundle_storage == present_values(new_storage)
       IN  Returned("newly_created", Args(Some(new_info), new_storage, None),
                    Some(PlainAccount(new_info, new_bundle_storage)),
                    newly_created_status(status),
                    Some(TransitionAccount(Some(new_info), newly_created_status(status),
                                           previous_info, previous_status,
                                           storage_diff)),
                    None)

\* Mutant: a destroyed account whose info changes counts as created in memory.
account_info_change_status_revives(st, previous_info) ==
    CASE st = "Loaded" ->
            IF previous_info.some /\ previous_info.val.code_hash = KECCAK_EMPTY
            THEN "InMemoryChange"
            ELSE "Changed"
      [] st = "LoadedNotExisting" -> "InMemoryChange"
      [] st = "LoadedEmptyEIP161" -> "InMemoryChange"
      [] st = "Changed" -> "Changed"
      [] st = "InMemoryChange" -> "InMemoryChange"
      [] st = "Destroyed" -> "InMemoryChange"
      [] st = "DestroyedChanged" -> "DestroyedChanged"
      [] st = "DestroyedAgain" -> "InMemoryChange"

\* Mutant: a Loaded account is taken for one without code whatever its code hash.
account_info_change_status_no_code(st, previous_info) ==
    CASE st = "Loaded" -> "InMemoryChange"
      [] st = "LoadedNotExisting" -> "InMemoryChange"
      [] st = "LoadedEmptyEIP161" -> "InMemoryChange"
      [] st = "Changed" -> "Changed"
      [] st = "InMemoryChange" -> "InMemoryChange"
      [] st = "Destroyed" -> "DestroyedChanged"
      [] st = "DestroyedChanged" -> "DestroyedChanged"
      [] st = "DestroyedAgain" -> "DestroyedChanged"

\* The status match of account_info_change.
account_info_change_status(st, previous_info) ==
    CASE st = "Loaded" ->
            IF previous_info.some /\ previous_info.val.code_hash = KECCAK_EMPTY
            THEN "InMemoryChange"
            ELSE "Changed"
      [] st = "LoadedNotExisting" -> "InMemoryChange"
      [] st = "LoadedEmptyEIP161" -> "InMemoryChange"
      [] st = "Changed" -> "Changed"
      [] st = "InMemoryChange" -> "InMemoryChange"
      [] st = "Destroyed" -> "DestroyedChanged"
      [] st = "DestroyedChanged" -> "DestroyedChanged"
      [] st = "DestroyedAgain" -> "DestroyedChanged"

\* self.account.take().unwrap_or_default()
taken_account == IF account.some THEN account.val ELSE PlainAccount_default

\* account_info_change with a closure that leaves the balance at `balance` and
\* returns `output`.
account_info_change(name, arguments, balance, output) ==
    LET previous_status == status
        previous_info == account_info
        changed == PlainAccount([taken_account.info EXCEPT !.balance = balance],
                                taken_account.storage)
        new_status == account_info_change_status(status, previous_info)
    IN  Returned(name, arguments, Some(changed), new_status,
                 Some(TransitionAccount(Some(changed.info), new_status, previous_info,
                                        previous_status, EmptyMap)),
                 output)

\* The documented precondition: the sum does not overflow the balance.
increment_balance(balance) ==
    /\ Callable
    /\ taken_account.info.balance + balance <= MaxU256
    /\ account_info_change("increment_balance", Args(None, EmptyMap, Some(balance)),
                           taken_account.info.balance + balance, None)

\* output.try_into().unwrap(): whether the balance fits the u128 it is drained into.
fits_u128(balance) == balance <= MaxU128

drain_balance ==
    /\ Callable
    /\ IF fits_u128(taken_account.info.balance)
       THEN account_info_change("drain_balance", NoArgs, 0,
                                Some(taken_account.info.balance))
       ELSE Panicked("drain_balance", NoArgs)

\* Mutant: a changed Loaded account is Changed whatever its code hash.
change_status_ignores_code_hash(st, previous_info) ==
    CASE st = "Loaded" -> "Changed"
      [] st = "Changed" -> "Changed"
      [] st = "InMemoryChange" -> "InMemoryChange"
      [] st = "DestroyedChanged" -> "DestroyedChanged"
      [] st = "LoadedEmptyEIP161" -> "InMemoryChange"
      [] st = "LoadedNotExisting" -> "InMemoryChange"
      [] st \in {"Destroyed", "DestroyedAgain"} -> "DestroyedChanged"

\* The status match of change.
change_status(st, previous_info) ==
    CASE st = "Loaded" ->
            IF previous_info.some /\ previous_info.val.code_hash = KECCAK_EMPTY
            THEN "InMemoryChange"
            ELSE "Changed"
      [] st = "Changed" -> "Changed"
      [] st = "InMemoryChange" -> "InMemoryChange"
      [] st = "DestroyedChanged" -> "DestroyedChanged"
      [] st = "LoadedEmptyEIP161" -> "InMemoryChange"
      [] st = "LoadedNotExisting" -> "InMemoryChange"
      [] st \in {"Destroyed", "DestroyedAgain"} -> "DestroyedChanged"

change(new, storage) ==
    /\ Callable
    /\ LET previous_status == status
           previous_info == account_info
           this_storage == extend(storage_of(account), present_values(storage))
           changed_account == PlainAccount(new, this_storage)
           new_status == change_status(status, previous_info)
       IN  Returned("change", Args(Some(new), storage, None),
                    Some(changed_account), new_status,
                    Some(TransitionAccount(Some(changed_account.info), new_status,
                                           previous_info, previous_status, storage)),
                    None)

\* The execution layer moves the returned transition (and drained amount) out
\* to accumulate it for the bundle state; the entry itself is not touched.
accumulate ==
    /\ ret.some
    /\ op' = "accumulate"
    /\ args' = NoArgs
    /\ old_account' = account
    /\ old_status' = status
    /\ ret' = None
    /\ drained' = None
    /\ UNCHANGED <<account, status, panicked>>

\* ------------------------------------------------------------- aggregator

\* The storage diff of a returned transition (nothing when none was returned).
emitted(transition) == IF transition.some THEN transition.val.storage ELSE EmptyMap

\* A storage map with a diff replayed on it: each slot of the diff is set to
\* its present_value.
applied(map, diff) ==
    [k \in (DOMAIN map) \cup (DOMAIN diff) |->
        IF k \in DOMAIN diff THEN diff[k].present_value ELSE map[k]]

\* A storage map read with a zero slot as an absent one.
nonzero(map) == [k \in {j \in DOMAIN map : map[j] # 0} |-> map[k]]

\* The aggregator is not attached.
Unobserved ==
    /\ replayed = EmptyMap
    /\ dropped = FALSE
    /\ original = EmptyMap
    /\ scenario = "off"

\* The aggregator replays the storage diff of the transition just returned, and
\* notes a selfdestruct of a record that held a non-zero slot.
Replay ==
    /\ replayed' = applied(replayed, emitted(ret'))
    /\ dropped' = (dropped \/ (op' = "selfdestruct" /\ nonzero(storage_of(account)) # EmptyMap))
    /\ UNCHANGED <<original, scenario>>

\* A caller's diff that gives, for each slot of the construction storage, the
\* value the slot had at construction as its original_value.
honest(storage) ==
    \A k \in (DOMAIN storage) \cap (DOMAIN original) :
        storage[k].original_value = original[k]

\* The calls so far are new_loaded, then selfdestruct, then newly_created (the
\* caller moving a returned transition out in between); "off" once they differ.
Follow ==
    /\ scenario' =
          CASE scenario = "new_loaded" /\ op' = "selfdestruct" -> "selfdestruct"
            [] scenario = "selfdestruct" /\ op' = "newly_created" -> "newly_created"
            [] OTHER -> "off"
    /\ UNCHANGED <<replayed, dropped, original>>

\* ---------------------------------------------------------- specification

\* The entry alone, from any constructor.
Init ==
    /\ \/ \E info \in AccountInfo, storage \in PlainStorage : new_loaded(info, storage)
       \/ \E storage \in PlainStorage : new_loaded_empty_eip161(storage)
       \/ new_loaded_not_existing
       \/ \E info \in AccountInfo, storage \in PlainStorage : new_newly_created(info, storage)
       \/ new_destroyed
       \/ \E info \in AccountInfo, storage \in PlainStorage : new_changed(info, storage)
    /\ Unobserved

Next ==
    \/ touch_empty /\ UNCHANGED observer
    \/ selfdestruct /\ UNCHANGED observer
    \/ \E new_info \in AccountInfo, new_storage \in StorageWithOriginalValues :
          newly_created(new_info, new_storage) /\ UNCHANGED observer
    \/ \E balance \in Amounts : increment_balance(balance) /\ UNCHANGED observer
    \/ drain_balance /\ UNCHANGED observer
    \/ \E new \in AccountInfo, storage \in StorageWithOriginalValues :
          change(new, storage) /\ UNCHANGED observer
    \/ accumulate /\ UNCHANGED observer

Spec == Init /\ [][Next]_vars

\* The entry built by a loaded constructor, with the aggregator replaying every
\* emitted storage diff on the storage map given at construction.
InitReplay ==
    /\ \/ \E info \in AccountInfo, storage \in PlainStorage : new_loaded(info, storage)
       \/ \E storage \in PlainStorage : new_loaded_empty_eip161(storage)
       \/ new_loaded_not_existing
    /\ replayed = args.storage
    /\ dropped = FALSE
    /\ original = EmptyMap
    /\ scenario = "off"

NextReplay ==
    \/ touch_empty /\ Replay
    \/ selfdestruct /\ Replay
    \/ \E new_info \in AccountInfo, new_storage \in StorageWithOriginalValues :
          newly_created(new_info, new_storage) /\ Replay
    \/ \E balance \in Amounts : increment_balance(balance) /\ Replay
    \/ drain_balance /\ Replay
    \/ \E new \in AccountInfo, storage \in StorageWithOriginalValues :
          change(new, storage) /\ Replay
    \/ accumulate /\ UNCHANGED observer

SpecReplay == InitReplay /\ [][NextReplay]_vars

\* Metadata with a zero balance, of either code hash.
ZeroBalanceInfo == {info \in AccountInfo : info.balance = 0}

\* The entry from any constructor, the construction storage remembered, and
\* callers that only supply honest diffs.  No operation reads a balance to
\* build a storage diff, so the metadata the callers supply is drawn from
\* ZeroBalanceInfo; increment_balance and drain_balance still move the balance.
InitOriginal ==
    /\ \/ \E info \in ZeroBalanceInfo, storage \in PlainStorage : new_loaded(info, storage)
       \/ \E storage \in PlainStorage : new_loaded_empty_eip161(storage)
       \/ new_loaded_not_existing
       \/ \E info \in ZeroBalanceInfo, storage \in PlainStorage :
             new_newly_created(info, storage)
       \/ new_destroyed
       \/ \E info \in ZeroBalanceInfo, storage \in PlainStorage : new_changed(info, storage)
    /\ replayed = EmptyMap
    /\ dropped = FALSE
    /\ original = args.storage
    /\ scenario = "off"

NextOriginal ==
    \/ touch_empty /\ UNCHANGED observer
    \/ selfdestruct /\ UNCHANGED observer
    \/ \E new_info \in ZeroBalanceInfo, new_storage \in StorageWithOriginalValues :
          honest(new_storage) /\ newly_created(new_info, new_storage) /\ UNCHANGED observer
    \/ \E balance \in Amounts : increment_balance(balance) /\ UNCHANGED observer
    \/ drain_balance /\ UNCHANGED observer
    \/ \E new \in ZeroBalanceInfo, storage \in StorageWithOriginalValues :
          honest(storage) /\ change(new, storage) /\ UNCHANGED observer
    \/ accumulate /\ UNCHANGED observer

SpecOriginal == InitOriginal /\ [][NextOriginal]_vars

\* The entry built by new_loaded, the construction storage remembered and the
\* calls followed against the destroy-then-recreate scenario.
InitRecreate ==
    /\ \E info \in AccountInfo, storage \in PlainStorage : new_loaded(info, storage)
    /\ replayed = EmptyMap
    /\ dropped = FALSE
    /\ original = args.storage
    /\ scenario = "new_loaded"

NextRecreate ==
    \/ touch_empty /\ Follow
    \/ selfdestruct /\ Follow
    \/ \E new_info \in AccountInfo, new_storage \in StorageWithOriginalValues :
          newly_created(new_info, new_storage) /\ Follow
    \/ \E balance \in Amounts : increment_balance(balance) /\ Follow
    \/ drain_balance /\ Follow
    \/ \E new \in AccountInfo, storage \in StorageWithOriginalValues :
          change(new, storage) /\ Follow
    \/ accumulate /\ UNCHANGED observer

SpecRecreate == InitRecreate /\ [][NextRecreate]_vars

\* ------------------------------------------------------------------ claims

Absent == {"LoadedNotExisting", "Destroyed", "DestroyedAgain"}

DestroyedFamily == {"DestroyedChanged", "DestroyedAgain", "Destroyed"}

\* C1: after construction and after every completed operation the record is
\* absent if and only if the status is LoadedNotExisting, Destroyed or
\* DestroyedAgain.
RecordStatusPairing == ~panicked => (~account.some <=> status \in Absent)

\* C1 witness: touch_empty has just cleared a present record of a
\* DestroyedChanged entry.
RecordCleared ==
    /\ op = "touch_empty"
    /\ ~panicked
    /\ old_account.some
    /\ old_status = "DestroyedChanged"
    /\ ~account.some
    /\ status = "DestroyedAgain"

\* C2: an operation ends in a panic only if it is touch_empty called on Loaded
\* or Changed.
Totality == panicked => (op = "touch_empty" /\ old_status \in {"Loaded", "Changed"})

\* C3, as claimed and read in its favour (a slot holding zero counts as an
\* absent one): the construction storage with every emitted diff replayed on
\* it is the live storage (empty when the record is absent).
ReplayIsLiveStorage == ~panicked => nonzero(replayed) = nonzero(storage_of(account))

\* C3, amended: the same, as long as no selfdestruct was called on a record
\* holding a non-zero slot.
ReplayAgreesOnNonZero ==
    (~panicked /\ ~dropped) => nonzero(replayed) = nonzero(storage_of(account))

\* C3 witness: newly_created has cleared a non-zero live slot its caller did
\* not name; the replay holds the slot at zero, the live storage does not hold
\* it, so the two maps agree only with zero read as absent.
ReplayHoldsClearedSlot ==
    /\ op = "newly_created"
    /\ ~dropped
    /\ replayed # storage_of(account)
    /\ \E k \in DOMAIN replayed :
          /\ k \in DOMAIN storage_of(old_account)
          /\ storage_of(old_account)[k] # 0
          /\ replayed[k] = 0
          /\ k \notin DOMAIN storage_of(account)

\* C4, as claimed (callers honest): every entry of an emitted diff for a slot of
\* the construction storage has the construction value as its original_value.
OriginalIsConstructionValue ==
    \A k \in (DOMAIN emitted(ret)) \cap (DOMAIN original) :
        emitted(ret)[k].original_value = original[k]

\* C4, amended (callers honest): such an entry has the construction value as
\* its original_value, unless touch_empty or newly_created built it from a live
\* slot the caller did not name; then it has the live value before the call.
OriginalIsConstructionOrLiveValue ==
    \A k \in (DOMAIN emitted(ret)) \cap (DOMAIN original) :
        \/ emitted(ret)[k].original_value = original[k]
        \/ /\ op \in {"touch_empty", "newly_created"}
           /\ k \notin DOMAIN args.storage
           /\ k \in DOMAIN storage_of(old_account)
           /\ emitted(ret)[k].original_value = storage_of(old_account)[k]

\* C4 witness: touch_empty emits a cleared entry whose original_value is the
\* live value an earlier operation wrote, not the construction value.
ClearedEntryCarriesLiveValue ==
    /\ op = "touch_empty"
    /\ \E k \in (DOMAIN emitted(ret)) \cap (DOMAIN original) :
          /\ emitted(ret)[k].original_value # original[k]
          /\ emitted(ret)[k].original_value = storage_of(old_account)[k]

\* The status table of touch_empty, as the claim gives it.
TouchEmptyTable(st) ==
    CASE st = "DestroyedChanged" -> "DestroyedAgain"
      [] st = "InMemoryChange" -> "Destroyed"
      [] st = "LoadedEmptyEIP161" -> "Destroyed"
      [] st \in Absent -> st
      [] OTHER -> "none"

\* C5: a touch_empty that completes maps the status by the table, and called
\* again right after a call on LoadedNotExisting, Destroyed or DestroyedAgain it
\* leaves the status where it was.
TouchEmptyStatus ==
    [][(op' = "touch_empty" /\ ~panicked') =>
          /\ status' = TouchEmptyTable(status)
          /\ (op = "touch_empty" /\ old_status \in Absent) =>
                (status = old_status /\ status' = old_status)]_vars

\* C5 witness: touch_empty called on DestroyedAgain, the status a touch_empty
\* on DestroyedChanged leaves.
TouchedAgain ==
    /\ op = "touch_empty"
    /\ old_status = "DestroyedAgain"
    /\ status = "DestroyedAgain"
    /\ ~ret.some

\* C6: a touch_empty that completes returns no transition exactly when it was
\* called on LoadedNotExisting, Destroyed or DestroyedAgain, and the transition
\* it returns otherwise has no info.
TouchEmptyReturn ==
    (op = "touch_empty" /\ ~panicked) =>
        /\ ~ret.some <=> old_status \in Absent
        /\ ret.some => ~ret.val.info.some

\* C6 witness: touch_empty on an InMemoryChange entry returned a transition.
TouchEmptyReturned ==
    /\ op = "touch_empty"
    /\ old_status = "InMemoryChange"
    /\ ret.some
    /\ ret.val.previous_info.some
    /\ ~ret.val.info.some

\* C7: the storage diff of a transition touch_empty returns has one entry per
\* slot of the live storage before the call, with present value zero and the
\* slot's value before the call as original value; the record is absent
\* afterwards, and a LoadedEmptyEIP161 entry ends Destroyed.
TouchEmptyDiff ==
    (op = "touch_empty" /\ ret.some) =>
        /\ DOMAIN ret.val.storage = DOMAIN storage_of(old_account)
        /\ \A k \in DOMAIN ret.val.storage :
              /\ ret.val.storage[k].present_value = 0
              /\ ret.val.storage[k].original_value = storage_of(old_account)[k]
        /\ ~account.some
        /\ old_status = "LoadedEmptyEIP161" => status = "Destroyed"

\* C7 witness: touch_empty on a LoadedEmptyEIP161 entry holding a non-zero slot.
TouchEmptyClearedSlot ==
    /\ op = "touch_empty"
    /\ old_status = "LoadedEmptyEIP161"
    /\ status = "Destroyed"
    /\ ret.some
    /\ \E k \in DOMAIN ret.val.storage :
          ret.val.storage[k] = [original_value |-> 1, present_value |-> 0]

\* C8: touch_empty called on Loaded or Changed panics: the status stays as it
\* was and nothing is returned.
TouchEmptyFatal ==
    (op = "touch_empty" /\ old_status \in {"Loaded", "Changed"}) =>
        /\ panicked
        /\ status = old_status
        /\ ~ret.some

\* C8 witness: touch_empty was called on a Changed entry.
TouchEmptyOnChanged ==
    /\ op = "touch_empty"
    /\ old_status = "Changed"
    /\ old_account.some
    /\ panicked

\* C9: selfdestruct leaves the record absent, the status DestroyedAgain when it
\* was called on DestroyedChanged, DestroyedAgain or Destroyed and Destroyed
\* otherwise; a transition it returns has no info and an empty storage diff.
SelfdestructEffect ==
    op = "selfdestruct" =>
        /\ ~panicked
        /\ ~account.some
        /\ status = IF old_status \in DestroyedFamily THEN "DestroyedAgain" ELSE "Destroyed"
        /\ ret.some => (~ret.val.info.some /\ DOMAIN ret.val.storage = {})

\* C9 witness: selfdestruct of a DestroyedChanged record that held a slot.
SelfdestructedWithStorage ==
    /\ op = "selfdestruct"
    /\ old_status = "DestroyedChanged"
    /\ DOMAIN storage_of(old_account) # {}
    /\ status = "DestroyedAgain"
    /\ ret.some

\* C10: selfdestruct returns no transition exactly when called on
\* LoadedNotExisting; the status is Destroyed all the same, and a change,
\* increment_balance or newly_created that follows acts on Destroyed: it ends
\* DestroyedChanged with previous_status Destroyed.
SilentSelfdestruct ==
    [][/\ op' = "selfdestruct" =>
             /\ ~ret'.some <=> status = "LoadedNotExisting"
             /\ status = "LoadedNotExisting" => status' = "Destroyed"
       /\ (/\ op = "selfdestruct"
           /\ old_status = "LoadedNotExisting"
           /\ op' \in {"change", "increment_balance", "newly_created"}) =>
             /\ old_status' = "Destroyed"
             /\ status' = "DestroyedChanged"
             /\ ret'.some
             /\ ret'.val.previous_status = "Destroyed"
             /\ ~ret'.val.previous_info.some]_vars

\* C10 witness: selfdestruct of a LoadedNotExisting entry returned nothing and
\* left the status Destroyed, and the entry can be called again at once.
SelfdestructedNotExisting ==
    /\ op = "selfdestruct"
    /\ old_status = "LoadedNotExisting"
    /\ status = "Destroyed"
    /\ ~ret.some
    /\ ENABLED (\E balance \in Amounts : increment_balance(balance) /\ UNCHANGED observer)

\* C11: newly_created completes on every status; called on DestroyedAgain,
\* Destroyed or DestroyedChanged it leaves DestroyedChanged, on any other status
\* InMemoryChange; it returns a transition and leaves the record present with
\* the info it was given.
NewlyCreatedStatus ==
    op = "newly_created" =>
        /\ ~panicked
        /\ status = IF old_status \in DestroyedFamily
                    THEN "DestroyedChanged"
                    ELSE "InMemoryChange"
        /\ ret.some
        /\ account.some
        /\ Some(account.val.info) = args.info

\* C11 witness: newly_created on a Changed entry.
NewlyCreatedOnChanged ==
    /\ op = "newly_created"
    /\ old_status = "Changed"
    /\ status = "InMemoryChange"
    /\ ret.some

\* C12: the storage diff newly_created returns holds, for every slot of the
\* live storage before the call that the caller's diff does not name, an entry
\* with present value zero and the slot's old value as original value, and for
\* every slot the caller's diff names the caller's entry; the live storage
\* afterwards maps each slot of the caller's diff to its present value.
NewlyCreatedDiff ==
    op = "newly_created" =>
        /\ ret.some
        /\ \A k \in (DOMAIN storage_of(old_account)) \ (DOMAIN args.storage) :
              /\ k \in DOMAIN ret.val.storage
              /\ ret.val.storage[k].present_value = 0
              /\ ret.val.storage[k].original_value = storage_of(old_account)[k]
        /\ \A k \in DOMAIN args.storage :
              /\ k \in DOMAIN ret.val.storage
              /\ ret.val.storage[k] = args.storage[k]
        /\ account.some
        /\ DOMAIN account.val.storage = DOMAIN args.storage
        /\ \A k \in DOMAIN args.storage :
              account.val.storage[k] = args.storage[k].present_value

\* C12 witness: the caller's diff names a live slot, with an entry that is not
\* the cleared entry of that slot.
NewlyCreatedCollision ==
    /\ op = "newly_created"
    /\ \E k \in (DOMAIN storage_of(old_account)) \cap (DOMAIN args.storage) :
          /\ args.storage[k] # new_cleared_value(storage_of(old_account)[k])
          /\ ret.val.storage[k] = args.storage[k]

\* The first two steps of destroy-then-recreate: selfdestruct right after
\* new_loaded leaves Destroyed and returns a transition with no info.
DestroyedAfterLoad ==
    (scenario = "selfdestruct" /\ op = "selfdestruct") =>
        /\ status = "Destroyed"
        /\ ret.some
        /\ ~ret.val.info.some

\* C13, as claimed and read in its favour (only the non-zero slots of the
\* destroyed account are asked for): after new_loaded, selfdestruct and
\* newly_created the status is DestroyedChanged and the storage diff holds each
\* old slot the caller's diff does not name as a cleared entry, and the caller's
\* entries.
RecreateClearsOldSlots ==
    /\ DestroyedAfterLoad
    /\ (scenario = "newly_created" /\ op = "newly_created") =>
          /\ status = "DestroyedChanged"
          /\ ret.some
          /\ \A k \in (DOMAIN nonzero(original)) \ (DOMAIN args.storage) :
                /\ k \in DOMAIN ret.val.storage
                /\ ret.val.storage[k] = new_cleared_value(original[k])
          /\ \A k \in DOMAIN args.storage :
                /\ k \in DOMAIN ret.val.storage
                /\ ret.val.storage[k] = args.storage[k]

\* C13, amended: after new_loaded, selfdestruct and newly_created the status is
\* DestroyedChanged and the storage diff is the caller's diff and nothing else.
RecreateEmitsCallersDiff ==
    /\ DestroyedAfterLoad
    /\ (scenario = "newly_created" /\ op = "newly_created") =>
          /\ status = "DestroyedChanged"
          /\ ret.some
          /\ ret.val.previous_status = "Destroyed"
          /\ ret.val.storage = args.storage

\* C13 witness: the account recreated held a non-zero slot when it was
\* destroyed, and the diff of the recreation does not name that slot.
RecreatedWithoutOldSlot ==
    /\ scenario = "newly_created"
    /\ op = "newly_created"
    /\ status = "DestroyedChanged"
    /\ \E k \in DOMAIN nonzero(original) : k \notin DOMAIN ret.val.storage

\* The code hash of a record; none when the record is absent.
CodeHashOf(acc) == IF acc.some THEN acc.val.info.code_hash ELSE "none"

\* The status table the claims give for change and for the metadata-only
\* operations: the new status from the old status and the old record.
ChangeTable(st, acc) ==
    CASE st = "Loaded" ->
            IF CodeHashOf(acc) = KECCAK_EMPTY THEN "InMemoryChange" ELSE "Changed"
      [] st \in {"Changed", "InMemoryChange", "DestroyedChanged"} -> st
      [] st \in {"LoadedEmptyEIP161", "LoadedNotExisting"} -> "InMemoryChange"
      [] st \in {"Destroyed", "DestroyedAgain"} -> "DestroyedChanged"

\* C14: change completes on every status and maps it by the table; the
\* transition it returns carries the status and info before the call as
\* previous_status and previous_info, the new status and the new info.
ChangeStatus ==
    op = "change" =>
        /\ ~panicked
        /\ status = ChangeTable(old_status, old_account)
        /\ ret.some
        /\ ret.val.previous_status = old_status
        /\ ret.val.previous_info = info_of(old_account)
        /\ ret.val.status = status
        /\ ret.val.info = args.info
        /\ account_info = args.info

\* C14 witness: change of the balance of a Loaded account without code: the
\* status is InMemoryChange and the transition carries both balances.
ChangedLoadedWithoutCode ==
    /\ op = "change"
    /\ old_status = "Loaded"
    /\ status = "InMemoryChange"
    /\ ret.val.previous_status = "Loaded"
    /\ ret.val.previous_info.val.code_hash = KECCAK_EMPTY
    /\ ret.val.previous_info.val.balance = 1
    /\ ret.val.info.val.balance = 2

\* C15: change leaves the live storage equal to the storage before the call
\* with every slot of the input diff set to its present value and the other
\* slots as they were; the storage diff of the transition is the input diff.
ChangeStorage ==
    op = "change" =>
        /\ account.some
        /\ DOMAIN account.val.storage =
              (DOMAIN storage_of(old_account)) \cup (DOMAIN args.storage)
        /\ \A k \in DOMAIN account.val.storage :
              account.val.storage[k] =
                 IF k \in DOMAIN args.storage
                 THEN args.storage[k].present_value
                 ELSE storage_of(old_account)[k]
        /\ ret.some
        /\ ret.val.storage = args.storage

\* C15 witness: change sets a non-zero live slot to zero; the slot stays in the
\* live storage and the transition holds the caller's entry.
ChangeOverwroteSlot ==
    /\ op = "change"
    /\ \E k \in (DOMAIN storage_of(old_account)) \cap (DOMAIN args.storage) :
          /\ storage_of(old_account)[k] = 1
          /\ args.storage[k].present_value = 0
          /\ account.val.storage[k] = 0
          /\ ret.val.storage[k] = args.storage[k]

\* C16: an increment_balance or drain_balance that completes maps the status
\* by the table, returns a transition with an empty storage diff and leaves the
\* live storage as it was; on an absent record it acts on a default record
\* (zero balance, no code, empty storage).
InfoChangeStatus ==
    (op \in {"increment_balance", "drain_balance"} /\ ~panicked) =>
        /\ status = ChangeTable(old_status, old_account)
        /\ ret.some
        /\ ret.val.storage = EmptyMap
        /\ account.some
        /\ account.val.storage = storage_of(old_account)
        /\ ~old_account.some =>
              /\ account.val.info.code_hash = KECCAK_EMPTY
              /\ account.val.info.balance =
                    IF op = "increment_balance" THEN args.amount.val ELSE 0
              /\ op = "drain_balance" => drained = Some(0)

\* C16 witness: drain_balance of a Loaded account with code that holds a slot:
\* the status is Changed and the slot is still there.
DrainedLoadedWithCode ==
    /\ op = "drain_balance"
    /\ ~panicked
    /\ old_status = "Loaded"
    /\ CodeHashOf(old_account) = CODE_HASH
    /\ status = "Changed"
    /\ DOMAIN account.val.storage # {}
    /\ drained = Some(1)

\* The balance drain_balance reads: that of the record it was called on, zero
\* when the record was absent.
BalanceBefore == IF old_account.some THEN old_account.val.info.balance ELSE 0

\* C17: drain_balance never ends in a fatal abort: on a balance that does not
\* fit the drained amount it hands the caller an error and no amount, and on a
\* balance that fits it returns that balance and leaves the balance zero.
DrainBalanceRecoverable ==
    op = "drain_balance" =>
        /\ ~panicked
        /\ IF BalanceBefore <= MaxU128
           THEN /\ drained = Some(BalanceBefore)
                /\ account.some
                /\ account.val.info.balance = 0
           ELSE ~drained.some

\* C18: a returned transition has the status and info the entry had before the
\* call as previous_status and previous_info, and the status and info the entry
\* has after the call as status and info.
TransitionBeforeAfter ==
    ret.some =>
        /\ op \in Operations
        /\ ret.val.previous_status = old_status
        /\ ret.val.previous_info =
              IF old_account.some THEN Some(old_account.val.info) ELSE None
        /\ ret.val.status = status
        /\ ret.val.info = IF account.some THEN Some(account.val.info) ELSE None

\* C18 witness: selfdestruct of a present DestroyedChanged record: the
\* transition has the old info and status, and the new status with no info.
TransitionOfSelfdestruct ==
    /\ op = "selfdestruct"
    /\ ret.some
    /\ ret.val.previous_status = "DestroyedChanged"
    /\ ret.val.previous_info.some
    /\ ret.val.status = "DestroyedAgain"
    /\ ~ret.val.info.some

\* C19: after construction and after every completed operation is_some() is
\* true exactly when the record is present, and account_info() returns a value
\* exactly when is_some() is true.
IsSomeIsPresent ==
    ~panicked =>
        /\ is_some <=> account.some
        /\ account_info.some <=> is_some

\* C19 witness: increment_balance has put a record into a Destroyed entry, and
\* is_some() is true.
IsSomeAfterIncrement ==
    /\ op = "increment_balance"
    /\ old_status = "Destroyed"
    /\ ~old_account.some
    /\ is_some
    /\ account_info.some

\* C20: no step takes the status out of Destroyed, DestroyedChanged and
\* DestroyedAgain, none sets it to Loaded or LoadedEmptyEIP161, and none sets
\* it to LoadedNotExisting from another status.
DestroyedAbsorbing ==
    [][/\ status \in DestroyedFamily => status' \in DestroyedFamily
       /\ status' \in {"Loaded", "LoadedEmptyEIP161"} => status' = status
       /\ status' = "LoadedNotExisting" => status = "LoadedNotExisting"]_vars

\* C20 witness: increment_balance on a DestroyedAgain entry, itself reached
\* from inside the destroyed family, ends DestroyedChanged.
DestroyedStaysDestroyed ==
    /\ op = "increment_balance"
    /\ old_status = "DestroyedAgain"
    /\ status = "DestroyedChanged"

====
